---- MODULE Spec2Model ----
(***************************************************************************)
(* Model of the PageIndex Q&A program (src/main.py): the structure index   *)
(* (ensure_node_ids, build_node_index), the two selectors, and the         *)
(* interactive retrieval loop of main().                                   *)
(*                                                                         *)
(* Python values are modelled as follows.                                  *)
(*   - a str that the code inspects (node ids, page-number strings) is a   *)
(*     sequence of one-character strings, "0001" being <<"0","0","0","1">>;*)
(*     A character outside ASCII is written by its code point, "U+0663";   *)
(*   - a JSON value is tagged: None, JInt(n), JStr(s), JBool(b), JOther;   *)
(*   - a dict node of the structure tree is an object of the heap, named   *)
(*     by its reference (a positive integer); lists of nodes are sequences *)
(*     of references, so that "the same object" is "the same reference".   *)
(***************************************************************************)
EXTENDS Integers, Sequences, FiniteSets, TLC

VARIABLES
    client,          \* module-level `client`: TRUE when OpenAI(...) was built, FALSE when None
    pi_utils,        \* TRUE when `from pageindex import utils` succeeds
    structure,       \* main(): `structure`, the list of root nodes (references)
    heap,            \* the dict objects of the tree: reference -> node
    node_map,        \* main(): `node_map`, str id -> node reference
    pc,              \* position in main()
    applied,         \* how many times ensure_node_ids has been applied (index specification)
    question,        \* main(): `question` of the current turn
    mode,            \* main(): `mode`
    node_ids,        \* main(): `node_ids`
    selected_nodes,  \* main(): `selected_nodes` (references)
    pages,           \* main(): `pages`
    context,         \* main(): `context` (not reset between turns)
    answer,          \* main(): `answer` (not reset between turns)
    calls,           \* the collaborator calls made so far in the current turn, in order
    service,         \* which of them reached client.chat.completions.create, in order
    log,             \* the lines of the day's log file, one record per line
    turns,           \* number of questions accepted so far
    tree_for_reasoning, \* main(): `tree_for_reasoning`, the value simplify_tree returned
    node_resp,       \* what the completion service gives the Node Selector: Unbound when it
                     \* may give anything, else the one reply it gives in this turn
    page_resp        \* the same for the Page Selector

vars == <<client, pi_utils, structure, heap, node_map, pc, applied, question, mode,
          node_ids, selected_nodes, pages, context, answer, calls, service, log, turns,
          tree_for_reasoning, node_resp, page_resp>>

(***************************************************************************)
(* Bounds of the model.                                                    *)
(***************************************************************************)
MaxNodes == 3     \* nodes of a tree in the index specification
MaxApply == 2     \* applications of ensure_node_ids in the index specification
MaxPage  == 7     \* largest page number of a node range in the page-union specification
MaxSel   == 2     \* longest list of selected nodes in the page-union specification
MaxTurns == 2     \* questions accepted in one session
DocPages == 4     \* len(doc) of the PDF in extract_text_from_pdf
MaxList  == 2     \* longest JSON array of a selector reply in the one-turn specification

(***************************************************************************)
(* Python / JSON values.                                                   *)
(***************************************************************************)
None     == <<"None">>
JInt(n)  == <<"int", n>>
JStr(s)  == <<"str", s>>
JBool(b) == <<"bool", b>>        \* True, False: instances of int in Python
JOther   == <<"other">>          \* a float, a list, a dict: neither int nor str

IsNone(v) == v = None
IsInt(v)  == v[1] = "int"
IsStr(v)  == v[1] = "str"
IsBool(v) == v[1] = "bool"

Digits == <<"0", "1", "2", "3", "4", "5", "6", "7", "8", "9">>

RECURSIVE NatToStr(_)
NatToStr(n) == IF n < 10 THEN <<Digits[n + 1]>>
               ELSE NatToStr(n \div 10) \o <<Digits[(n % 10) + 1]>>

\* str(n) of a Python int
IntToStr(n) == IF n < 0 THEN <<"-">> \o NatToStr(0 - n) ELSE NatToStr(n)

\* str(v) of an int, a bool or a str value
Str(v) ==
    IF IsInt(v) THEN IntToStr(v[2])
    ELSE IF IsBool(v)
         THEN (IF v[2] THEN <<"T", "r", "u", "e">> ELSE <<"F", "a", "l", "s", "e">>)
         ELSE v[2]

\* s.zfill(w)
RECURSIVE ZFill(_, _)
ZFill(s, w) == IF Len(s) >= w THEN s ELSE ZFill(<<"0">> \o s, w)

\* The decimal digits of Unicode (category Nd), one block of ten per script,
\* each in the order of the values 0..9: the characters int() reads.
DecimalBlocks ==
    << <<"0", "1", "2", "3", "4", "5", "6", "7", "8", "9">>,
       <<"U+0660", "U+0661", "U+0662", "U+0663", "U+0664", "U+0665", "U+0666", "U+0667", "U+0668", "U+0669">>,
       <<"U+06F0", "U+06F1", "U+06F2", "U+06F3", "U+06F4", "U+06F5", "U+06F6", "U+06F7", "U+06F8", "U+06F9">>,
       <<"U+07C0", "U+07C1", "U+07C2", "U+07C3", "U+07C4", "U+07C5", "U+07C6", "U+07C7", "U+07C8", "U+07C9">>,
       <<"U+0966", "U+0967", "U+0968", "U+0969", "U+096A", "U+096B", "U+096C", "U+096D", "U+096E", "U+096F">>,
       <<"U+09E6", "U+09E7", "U+09E8", "U+09E9", "U+09EA", "U+09EB", "U+09EC", "U+09ED", "U+09EE", "U+09EF">>,
       <<"U+0A66", "U+0A67", "U+0A68", "U+0A69", "U+0A6A", "U+0A6B", "U+0A6C", "U+0A6D", "U+0A6E", "U+0A6F">>,
       <<"U+0AE6", "U+0AE7", "U+0AE8", "U+0AE9", "U+0AEA", "U+0AEB", "U+0AEC", "U+0AED", "U+0AEE", "U+0AEF">>,
       <<"U+0B66", "U+0B67", "U+0B68", "U+0B69", "U+0B6A", "U+0B6B", "U+0B6C", "U+0B6D", "U+0B6E", "U+0B6F">>,
       <<"U+0BE6", "U+0BE7", "U+0BE8", "U+0BE9", "U+0BEA", "U+0BEB", "U+0BEC", "U+0BED", "U+0BEE", "U+0BEF">>,
       <<"U+0C66", "U+0C67", "U+0C68", "U+0C69", "U+0C6A", "U+0C6B", "U+0C6C", "U+0C6D", "U+0C6E", "U+0C6F">>,
       <<"U+0CE6", "U+0CE7", "U+0CE8", "U+0CE9", "U+0CEA", "U+0CEB", "U+0CEC", "U+0CED", "U+0CEE", "U+0CEF">>,
       <<"U+0D66", "U+0D67", "U+0D68", "U+0D69", "U+0D6A", "U+0D6B", "U+0D6C", "U+0D6D", "U+0D6E", "U+0D6F">>,
       <<"U+0DE6", "U+0DE7", "U+0DE8", "U+0DE9", "U+0DEA", "U+0DEB", "U+0DEC", "U+0DED", "U+0DEE", "U+0DEF">>,
       <<"U+0E50", "U+0E51", "U+0E52", "U+0E53", "U+0E54", "U+0E55", "U+0E56", "U+0E57", "U+0E58", "U+0E59">>,
       <<"U+0ED0", "U+0ED1", "U+0ED2", "U+0ED3", "U+0ED4", "U+0ED5", "U+0ED6", "U+0ED7", "U+0ED8", "U+0ED9">>,
       <<"U+0F20", "U+0F21", "U+0F22", "U+0F23", "U+0F24", "U+0F25", "U+0F26", "U+0F27", "U+0F28", "U+0F29">>,
       <<"U+1040", "U+1041", "U+1042", "U+1043", "U+1044", "U+1045", "U+1046", "U+1047", "U+1048", "U+1049">>,
       <<"U+1090", "U+1091", "U+1092", "U+1093", "U+1094", "U+1095", "U+1096", "U+1097", "U+1098", "U+1099">>,
       <<"U+17E0", "U+17E1", "U+17E2", "U+17E3", "U+17E4", "U+17E5", "U+17E6", "U+17E7", "U+17E8", "U+17E9">>,
       <<"U+1810", "U+1811", "U+1812", "U+1813", "U+1814", "U+1815", "U+1816", "U+1817", "U+1818", "U+1819">>,
       <<"U+1946", "U+1947", "U+1948", "U+1949", "U+194A", "U+194B", "U+194C", "U+194D", "U+194E", "U+194F">>,
       <<"U+19D0", "U+19D1", "U+19D2", "U+19D3", "U+19D4", "U+19D5", "U+19D6", "U+19D7", "U+19D8", "U+19D9">>,
       <<"U+1A80", "U+1A81", "U+1A82", "U+1A83", "U+1A84", "U+1A85", "U+1A86", "U+1A87", "U+1A88", "U+1A89">>,
       <<"U+1A90", "U+1A91", "U+1A92", "U+1A93", "U+1A94", "U+1A95", "U+1A96", "U+1A97", "U+1A98", "U+1A99">>,
       <<"U+1B50", "U+1B51", "U+1B52", "U+1B53", "U+1B54", "U+1B55", "U+1B56", "U+1B57", "U+1B58", "U+1B59">>,
       <<"U+1BB0", "U+1BB1", "U+1BB2", "U+1BB3", "U+1BB4", "U+1BB5", "U+1BB6", "U+1BB7", "U+1BB8", "U+1BB9">>,
       <<"U+1C40", "U+1C41", "U+1C42", "U+1C43", "U+1C44", "U+1C45", "U+1C46", "U+1C47", "U+1C48", "U+1C49">>,
       <<"U+1C50", "U+1C51", "U+1C52", "U+1C53", "U+1C54", "U+1C55", "U+1C56", "U+1C57", "U+1C58", "U+1C59">>,
       <<"U+A620", "U+A621", "U+A622", "U+A623", "U+A624", "U+A625", "U+A626", "U+A627", "U+A628", "U+A629">>,
       <<"U+A8D0", "U+A8D1", "U+A8D2", "U+A8D3", "U+A8D4", "U+A8D5", "U+A8D6", "U+A8D7", "U+A8D8", "U+A8D9">>,
       <<"U+A900", "U+A901", "U+A902", "U+A903", "U+A904", "U+A905", "U+A906", "U+A907", "U+A908", "U+A909">>,
       <<"U+A9D0", "U+A9D1", "U+A9D2", "U+A9D3", "U+A9D4", "U+A9D5", "U+A9D6", "U+A9D7", "U+A9D8", "U+A9D9">>,
       <<"U+A9F0", "U+A9F1", "U+A9F2", "U+A9F3", "U+A9F4", "U+A9F5", "U+A9F6", "U+A9F7", "U+A9F8", "U+A9F9">>,
       <<"U+AA50", "U+AA51", "U+AA52", "U+AA53", "U+AA54", "U+AA55", "U+AA56", "U+AA57", "U+AA58", "U+AA59">>,
       <<"U+ABF0", "U+ABF1", "U+ABF2", "U+ABF3", "U+ABF4", "U+ABF5", "U+ABF6", "U+ABF7", "U+ABF8", "U+ABF9">>,
       <<"U+FF10", "U+FF11", "U+FF12", "U+FF13", "U+FF14", "U+FF15", "U+FF16", "U+FF17", "U+FF18", "U+FF19">>,
       <<"U+104A0", "U+104A1", "U+104A2", "U+104A3", "U+104A4", "U+104A5", "U+104A6", "U+104A7", "U+104A8", "U+104A9">>,
       <<"U+10D30", "U+10D31", "U+10D32", "U+10D33", "U+10D34", "U+10D35", "U+10D36", "U+10D37", "U+10D38", "U+10D39">>,
       <<"U+11066", "U+11067", "U+11068", "U+11069", "U+1106A", "U+1106B", "U+1106C", "U+1106D", "U+1106E", "U+1106F">>,
       <<"U+110F0", "U+110F1", "U+110F2", "U+110F3", "U+110F4", "U+110F5", "U+110F6", "U+110F7", "U+110F8", "U+110F9">>,
       <<"U+11136", "U+11137", "U+11138", "U+11139", "U+1113A", "U+1113B", "U+1113C", "U+1113D", "U+1113E", "U+1113F">>,
       <<"U+111D0", "U+111D1", "U+111D2", "U+111D3", "U+111D4", "U+111D5", "U+111D6", "U+111D7", "U+111D8", "U+111D9">>,
       <<"U+112F0", "U+112F1", "U+112F2", "U+112F3", "U+112F4", "U+112F5", "U+112F6", "U+112F7", "U+112F8", "U+112F9">>,
       <<"U+11450", "U+11451", "U+11452", "U+11453", "U+11454", "U+11455", "U+11456", "U+11457", "U+11458", "U+11459">>,
       <<"U+114D0", "U+114D1", "U+114D2", "U+114D3", "U+114D4", "U+114D5", "U+114D6", "U+114D7", "U+114D8", "U+114D9">>,
       <<"U+11650", "U+11651", "U+11652", "U+11653", "U+11654", "U+11655", "U+11656", "U+11657", "U+11658", "U+11659">>,
       <<"U+116C0", "U+116C1", "U+116C2", "U+116C3", "U+116C4", "U+116C5", "U+116C6", "U+116C7", "U+116C8", "U+116C9">>,
       <<"U+11730", "U+11731", "U+11732", "U+11733", "U+11734", "U+11735", "U+11736", "U+11737", "U+11738", "U+11739">>,
       <<"U+118E0", "U+118E1", "U+118E2", "U+118E3", "U+118E4", "U+118E5", "U+118E6", "U+118E7", "U+118E8", "U+118E9">>,
       <<"U+11950", "U+11951", "U+11952", "U+11953", "U+11954", "U+11955", "U+11956", "U+11957", "U+11958", "U+11959">>,
       <<"U+11C50", "U+11C51", "U+11C52", "U+11C53", "U+11C54", "U+11C55", "U+11C56", "U+11C57", "U+11C58", "U+11C59">>,
       <<"U+11D50", "U+11D51", "U+11D52", "U+11D53", "U+11D54", "U+11D55", "U+11D56", "U+11D57", "U+11D58", "U+11D59">>,
       <<"U+11DA0", "U+11DA1", "U+11DA2", "U+11DA3", "U+11DA4", "U+11DA5", "U+11DA6", "U+11DA7", "U+11DA8", "U+11DA9">>,
       <<"U+16A60", "U+16A61", "U+16A62", "U+16A63", "U+16A64", "U+16A65", "U+16A66", "U+16A67", "U+16A68", "U+16A69">>,
       <<"U+16AC0", "U+16AC1", "U+16AC2", "U+16AC3", "U+16AC4", "U+16AC5", "U+16AC6", "U+16AC7", "U+16AC8", "U+16AC9">>,
       <<"U+16B50", "U+16B51", "U+16B52", "U+16B53", "U+16B54", "U+16B55", "U+16B56", "U+16B57", "U+16B58", "U+16B59">>,
       <<"U+1D7CE", "U+1D7CF", "U+1D7D0", "U+1D7D1", "U+1D7D2", "U+1D7D3", "U+1D7D4", "U+1D7D5", "U+1D7D6", "U+1D7D7">>,
       <<"U+1D7D8", "U+1D7D9", "U+1D7DA", "U+1D7DB", "U+1D7DC", "U+1D7DD", "U+1D7DE", "U+1D7DF", "U+1D7E0", "U+1D7E1">>,
       <<"U+1D7E2", "U+1D7E3", "U+1D7E4", "U+1D7E5", "U+1D7E6", "U+1D7E7", "U+1D7E8", "U+1D7E9", "U+1D7EA", "U+1D7EB">>,
       <<"U+1D7EC", "U+1D7ED", "U+1D7EE", "U+1D7EF", "U+1D7F0", "U+1D7F1", "U+1D7F2", "U+1D7F3", "U+1D7F4", "U+1D7F5">>,
       <<"U+1D7F6", "U+1D7F7", "U+1D7F8", "U+1D7F9", "U+1D7FA", "U+1D7FB", "U+1D7FC", "U+1D7FD", "U+1D7FE", "U+1D7FF">>,
       <<"U+1E140", "U+1E141", "U+1E142", "U+1E143", "U+1E144", "U+1E145", "U+1E146", "U+1E147", "U+1E148", "U+1E149">>,
       <<"U+1E2F0", "U+1E2F1", "U+1E2F2", "U+1E2F3", "U+1E2F4", "U+1E2F5", "U+1E2F6", "U+1E2F7", "U+1E2F8", "U+1E2F9">>,
       <<"U+1E950", "U+1E951", "U+1E952", "U+1E953", "U+1E954", "U+1E955", "U+1E956", "U+1E957", "U+1E958", "U+1E959">>,
       <<"U+1FBF0", "U+1FBF1", "U+1FBF2", "U+1FBF3", "U+1FBF4", "U+1FBF5", "U+1FBF6", "U+1FBF7", "U+1FBF8", "U+1FBF9">> >>

\* The characters for which isdigit() is true that are no decimal digits
\* (superscripts, circled digits, ...): int() raises ValueError on them.
OtherDigits ==
    { "U+00B2", "U+00B3", "U+00B9", "U+1369", "U+136A", "U+136B", "U+136C", "U+136D",
      "U+136E", "U+136F", "U+1370", "U+1371", "U+19DA", "U+2070", "U+2074", "U+2075",
      "U+2076", "U+2077", "U+2078", "U+2079", "U+2080", "U+2081", "U+2082", "U+2083",
      "U+2084", "U+2085", "U+2086", "U+2087", "U+2088", "U+2089", "U+2460", "U+2461",
      "U+2462", "U+2463", "U+2464", "U+2465", "U+2466", "U+2467", "U+2468", "U+2474",
      "U+2475", "U+2476", "U+2477", "U+2478", "U+2479", "U+247A", "U+247B", "U+247C",
      "U+2488", "U+2489", "U+248A", "U+248B", "U+248C", "U+248D", "U+248E", "U+248F",
      "U+2490", "U+24EA", "U+24F5", "U+24F6", "U+24F7", "U+24F8", "U+24F9", "U+24FA",
      "U+24FB", "U+24FC", "U+24FD", "U+24FF", "U+2776", "U+2777", "U+2778", "U+2779",
      "U+277A", "U+277B", "U+277C", "U+277D", "U+277E", "U+2780", "U+2781", "U+2782",
      "U+2783", "U+2784", "U+2785", "U+2786", "U+2787", "U+2788", "U+278A", "U+278B",
      "U+278C", "U+278D", "U+278E", "U+278F", "U+2790", "U+2791", "U+2792", "U+10A40",
      "U+10A41", "U+10A42", "U+10A43", "U+10E60", "U+10E61", "U+10E62", "U+10E63", "U+10E64",
      "U+10E65", "U+10E66", "U+10E67", "U+10E68", "U+11052", "U+11053", "U+11054", "U+11055",
      "U+11056", "U+11057", "U+11058", "U+11059", "U+1105A", "U+1F100", "U+1F101", "U+1F102",
      "U+1F103", "U+1F104", "U+1F105", "U+1F106", "U+1F107", "U+1F108", "U+1F109", "U+1F10A" }

DecimalChars == {DecimalBlocks[b][d] : b \in 1..Len(DecimalBlocks), d \in 1..10}

IsDecimalChar(c) == c \in DecimalChars

\* s.isdigit(): non-empty and every character a digit of Unicode
IsDigit(s) ==
    Len(s) > 0 /\ \A i \in 1..Len(s) : IsDecimalChar(s[i]) \/ s[i] \in OtherDigits

\* sys.get_int_max_str_digits(): the longest digit string int() converts
IntMaxStrDigits == 4300

\* int(s) raises ValueError for a string s with s.isdigit(): some character
\* is no decimal digit, or s has more digits (leading zeros counted) than
\* int() converts
IntRaises(s) ==
    \/ \E i \in 1..Len(s) : s[i] \in OtherDigits
    \/ Len(s) > IntMaxStrDigits

DigitValue(c) ==
    (CHOOSE d \in 1..10 : \E b \in 1..Len(DecimalBlocks) : DecimalBlocks[b][d] = c) - 1

\* int(s) of a string of decimal digits
RECURSIVE ParseInt(_)
ParseInt(s) == IF Len(s) = 0 THEN 0
               ELSE 10 * ParseInt(SubSeq(s, 1, Len(s) - 1)) + DigitValue(s[Len(s)])

\* [f(x) for x in s]
RECURSIVE MapStr(_)
MapStr(s) == IF s = <<>> THEN <<>> ELSE <<Str(Head(s))>> \o MapStr(Tail(s))

(***************************************************************************)
(* The structure tree.                                                     *)
(***************************************************************************)
\* A node without title and summary. In a node, None says that the key is
\* missing (or null, where the code reads it with .get): the trees of this
\* model carry no key whose value is null.
Node(id, s, e, kids) ==
    [node_id |-> id, start_index |-> s, end_index |-> e, nodes |-> kids,
     title |-> None, summary |-> None]

\* the same node with a title and a summary (None: without)
Titled(n, t, s) == [n EXCEPT !.title = t, !.summary = s]

\* The nodes of the tree in depth-first pre-order: the order in which the
\* walks of ensure_node_ids, build_node_index and write_node_id visit them.
RECURSIVE PreOrder(_, _)
PreOrder(h, refs) ==
    IF refs = <<>> THEN <<>>
    ELSE <<Head(refs)>> \o PreOrder(h, h[Head(refs)].nodes) \o PreOrder(h, Tail(refs))

\* ensure_node_ids.walk: sets `found` at the first node with a non-null node_id
\* and does not descend below it; nodes without id are descended into.
RECURSIVE Found(_, _)
Found(h, refs) ==
    \E i \in 1..Len(refs) :
        \/ h[refs[i]].node_id # None
        \/ Found(h, h[refs[i]].nodes)

\* pageindex.utils.write_node_id: every node gets str(k).zfill(4), k counting
\* from 0 in depth-first pre-order.
write_node_id(h, refs) ==
    LET po == PreOrder(h, refs)
        Pos(r) == CHOOSE k \in 1..Len(po) : po[k] = r
    IN  [r \in DOMAIN h |->
            IF \E k \in 1..Len(po) : po[k] = r
            THEN [h[r] EXCEPT !.node_id = JStr(ZFill(IntToStr(Pos(r) - 1), 4))]
            ELSE h[r]]

\* A plausible slip: the test of `found` inverted.
ensure_node_ids_inverted(h, refs, importable) ==
    IF ~importable THEN h
    ELSE IF Found(h, refs) THEN write_node_id(h, refs)
    ELSE h

\* A plausible slip: backfill whenever called, without the `found` check.
ensure_node_ids_always(h, refs, importable) ==
    IF ~importable THEN h ELSE write_node_id(h, refs)

\* ensure_node_ids(structure): the heap after the call.
ensure_node_ids(h, refs, importable) ==
    IF ~importable THEN h
    ELSE IF ~Found(h, refs) THEN write_node_id(h, refs)
    ELSE h

\* node_map[key] = r
Put(m, key, r) == [k \in DOMAIN m \cup {key} |-> IF k = key THEN r ELSE m[k]]

EmptyMap == [k \in {} |-> 0]

\* A plausible slip: keep the first node seen for an id.
RECURSIVE IndexWalkFirst(_, _, _)
IndexWalkFirst(h, po, m) ==
    IF po = <<>> THEN m
    ELSE LET r == Head(po)
             id == h[r].node_id
         IN  IndexWalkFirst(h, Tail(po),
                 IF id # None /\ Str(id) \notin DOMAIN m THEN Put(m, Str(id), r) ELSE m)

\* build_node_index.walk, over the nodes in the order it visits them
RECURSIVE IndexWalk(_, _, _)
IndexWalk(h, po, m) ==
    IF po = <<>> THEN m
    ELSE LET r == Head(po)
             id == h[r].node_id
         IN  IndexWalk(h, Tail(po), IF id # None THEN Put(m, Str(id), r) ELSE m)

\* build_node_index(structure)
build_node_index(h, refs) ==
    IndexWalk(h, PreOrder(h, refs), EmptyMap)

\* a simplification that copies the page range as well
SimplifiedKeysWithPages(n) ==
    {k \in {"title", "node_id", "summary", "start_index", "end_index"} : n[k] # None}
        \cup (IF n.nodes # <<>> THEN {"nodes"} ELSE {})

\* The keys of the dict simplify_tree builds for node n: title, node_id and
\* summary when n has the key, nodes when n.get('nodes') is a non-empty list.
SimplifiedKeys(n) ==
    {k \in {"title", "node_id", "summary"} : n[k] # None}
        \cup (IF n.nodes # <<>> THEN {"nodes"} ELSE {})

\* simplify_tree(structure) of a list of nodes: a new list of new dicts, the
\* children simplified in turn
RECURSIVE simplify_tree(_, _)
simplify_tree(h, refs) ==
    [i \in 1..Len(refs) |->
        LET n == h[refs[i]]
        IN  [k \in SimplifiedKeys(n) |->
                IF k = "nodes" THEN simplify_tree(h, n.nodes) ELSE n[k]]]

(***************************************************************************)
(* The selectors, extraction, synthesis and logging.                       *)
(***************************************************************************)
Range(s) == {s[i] : i \in 1..Len(s)}

Count(s, x) == Cardinality({i \in 1..Len(s) : s[i] = x})

\* What client.chat.completions.create and the parse of its content give the
\* Node Selector: an exception (<<"error">>), no content (<<"empty">>), a parsed
\* value that is no dict (<<"other">>), a dict whose node_list is absent or no
\* list (<<"dict", <<"nolist">>>>), a dict with a node_list (<<"dict", <<"list", l>>>>).
NodeListOf(resp) == resp[2][2]

\* a Node Selector that answers a failure with the first section of the tree
get_relevant_nodes_default(cl, resp) ==
    IF cl /\ resp[1] = "dict" /\ resp[2][1] = "list"
    THEN MapStr(SelectSeq(NodeListOf(resp), LAMBDA n : n # None))
    ELSE <<<<"0", "0", "0", "0">>>>

\* a Node Selector without the `if not client` test of line 156
get_relevant_nodes_unguarded(cl, resp) ==
    IF resp[1] = "dict" /\ resp[2][1] = "list"
    THEN MapStr(SelectSeq(NodeListOf(resp), LAMBDA n : n # None))
    ELSE <<>>

\* get_relevant_nodes(question, tree_for_reasoning): the list it returns
get_relevant_nodes(cl, resp) ==
    IF ~cl THEN <<>>
    ELSE IF resp[1] = "dict" /\ resp[2][1] = "list"
         THEN MapStr(SelectSeq(NodeListOf(resp), LAMBDA n : n # None))
         ELSE <<>>

\* isinstance(p, (int, str)) and str(p).isdigit()
KeptPage(p) == (IsInt(p) \/ IsBool(p) \/ IsStr(p)) /\ IsDigit(Str(p))

\* the comprehension of line 253 raises: int(p) raises for a kept element
CoerceRaises(ps) == \E i \in 1..Len(ps) : KeptPage(ps[i]) /\ IntRaises(Str(ps[i]))

\* [int(p) for p in pages if isinstance(p, (int, str)) and str(p).isdigit()],
\* when no int(p) raises
RECURSIVE CoercePages(_)
CoercePages(ps) ==
    IF ps = <<>> THEN <<>>
    ELSE LET p == Head(ps)
         IN  (IF KeptPage(p) THEN <<ParseInt(Str(p))>> ELSE <<>>) \o CoercePages(Tail(ps))

\* get_relevant_pages(question, toc_text): the list it returns. The response is
\* an exception (<<"error">>), no content (<<"empty">>), parsed JSON that is no
\* list (<<"other">>), or a parsed array (<<"list", elements>>). A ValueError
\* of int() at line 253 is caught at line 255 like any other exception.
get_relevant_pages(cl, resp) ==
    IF ~cl THEN <<>>
    ELSE IF resp[1] = "list" /\ ~CoerceRaises(resp[2]) THEN CoercePages(resp[2])
    ELSE <<>>

\* context: the text of the pages read, as the sequence of their page markers
PageText(ps) == <<"text", ps>>
Text(s)      == <<"text", s>>
Unbound      == <<"unbound">>     \* a local of main() not assigned yet

\* extract_text_from_pdf(pdf_path, pages); opened: fitz.open and the reads succeed
extract_text_from_pdf(ps, opened) ==
    IF ~opened THEN PageText(<<>>)
    ELSE PageText(SelectSeq(ps, LAMBDA n : 0 <= n - 1 /\ n - 1 < DocPages))

\* generate_answer(question, context); resp: "error" (the call raises) or "content"
generate_answer(cl, resp) ==
    IF ~cl THEN Text("Error: OpenAI client not initialized.")
    ELSE IF resp = "error" THEN Text("Error generating answer")
    ELSE Text("content")

\* write_qa_log(logs_dir, record); written: the append succeeds
write_qa_log(lines, record, written) ==
    IF written THEN Append(lines, record) ELSE lines

\* a resolution that gives up at the first id the index does not know
RECURSIVE ResolveUntilMiss(_, _)
ResolveUntilMiss(m, ids) ==
    IF ids = <<>> \/ Head(ids) \notin DOMAIN m THEN <<>>
    ELSE <<m[Head(ids)]>> \o ResolveUntilMiss(m, Tail(ids))

\* [node_map.get(nid) for nid in node_ids if node_map.get(nid)]
RECURSIVE Resolve(_, _)
Resolve(m, ids) ==
    IF ids = <<>> THEN <<>>
    ELSE (IF Head(ids) \in DOMAIN m THEN <<m[Head(ids)]>> ELSE <<>>) \o Resolve(m, Tail(ids))

\* A plausible slip: no test of seen_pages.
RECURSIVE AddRangeNoDedup(_, _, _)
AddRangeNoDedup(acc, p, e) ==
    IF p > e THEN acc
    ELSE AddRangeNoDedup([acc EXCEPT !.seen = @ \cup {p}, !.pages = Append(@, p)],
                         p + 1, e)

\* for page in range(start_page, end_page + 1): if page not in seen_pages: ...
RECURSIVE AddRange(_, _, _)
AddRange(acc, p, e) ==
    IF p > e THEN acc
    ELSE AddRange(IF p \in acc.seen THEN acc
                  ELSE [acc EXCEPT !.seen = @ \cup {p}, !.pages = Append(@, p)],
                  p + 1, e)

\* the node is skipped by `if start_page is None or end_page is None: continue`
Skipped(n) == IsNone(n.start_index) \/ IsNone(n.end_index)

\* an index range() and `+ 1` accept: an int, or a bool (True is 1, False is 0)
IsIndex(v) == IsInt(v) \/ IsBool(v)

IndexInt(v) == IF IsBool(v) THEN (IF v[2] THEN 1 ELSE 0) ELSE v[2]

\* range(start_page, end_page + 1) raises TypeError: an index is a str, a
\* float, a list or a dict
Raises(n) == ~Skipped(n) /\ (~IsIndex(n.start_index) \/ ~IsIndex(n.end_index))

\* the loop of lines 467-475 over `sel`, up to the first node that raises
RECURSIVE ExpandFrom(_, _, _)
ExpandFrom(h, sel, acc) ==
    IF sel = <<>> THEN [acc EXCEPT !.raised = FALSE]
    ELSE LET n == h[Head(sel)]
         IN  IF Skipped(n) THEN ExpandFrom(h, Tail(sel), acc)
             ELSE IF Raises(n) THEN [acc EXCEPT !.raised = TRUE]
             ELSE ExpandFrom(h, Tail(sel),
                     AddRange(acc, IndexInt(n.start_index), IndexInt(n.end_index)))

\* lines 465-475: seen_pages = set(); pages = []; for node in selected_nodes: ...
TreePages(h, sel) == ExpandFrom(h, sel, [seen |-> {}, pages |-> <<>>, raised |-> FALSE])

\* a page list the turn sorts and strips of its duplicates
FallbackPagesSorted(ps) ==
    LET set == Range(ps)
        RECURSIVE Asc(_)
        Asc(S) == IF S = {} THEN <<>>
                  ELSE LET m == CHOOSE x \in S : \A y \in S : x <= y
                       IN  <<m>> \o Asc(S \ {m})
    IN  Asc(set)

\* lines 422 and 444: pages = get_relevant_pages(...), the list as returned
FallbackPages(ps) == ps

\* a page loop that writes the default into a node without start_index
NodesReadSetDefault(h, sel) ==
    [r \in DOMAIN h |->
        IF r \in Range(sel) /\ h[r].start_index = None
        THEN [h[r] EXCEPT !.start_index = JInt(1)]
        ELSE h[r]]

\* lines 465-469: the tree after the page loop, which reads the selected nodes
\* with node.get(...) and assigns to none of them
NodesRead(h, sel) == h

\* the "nodes" field of the record of line 487
RECURSIVE NodeFields(_, _)
NodeFields(h, sel) ==
    IF sel = <<>> THEN <<>>
    ELSE <<[node_id |-> h[Head(sel)].node_id,
            title |-> h[Head(sel)].title,
            start_index |-> h[Head(sel)].start_index,
            end_index |-> h[Head(sel)].end_index]>> \o NodeFields(h, Tail(sel))

\* a no_pages record that carries the mode the turn started with
NoPagesRecordInitialMode(q, m, ids) ==
    [question |-> q, mode |-> "tree", node_ids |-> ids, pages |-> <<>>,
     answer |-> Text(""), status |-> "no_pages"]

\* the record of lines 425-434 and 447-456
NoPagesRecord(q, m, ids) ==
    [question |-> q, mode |-> m, node_ids |-> ids, pages |-> <<>>,
     answer |-> Text(""), status |-> "no_pages"]

\* the record of lines 481-499
OkRecord(q, m, ids, h, sel, ps, ctx, ans) ==
    [question |-> q, mode |-> m, node_ids |-> ids, nodes |-> NodeFields(h, sel),
     pages |-> ps, context |-> ctx, answer |-> ans, status |-> "ok"]

\* A plausible slip: an empty Node Selector result ends the turn at once.
AfterNodesGiveUp(ids, sel) ==
    IF ids = <<>> THEN "log_no_pages"
    ELSE IF sel = <<>> THEN "toc"
    ELSE "expand"

\* lines 419 and 441: where main() goes after the Node Selector
AfterNodes(ids, sel) ==
    IF ids = <<>> THEN "toc"
    ELSE IF sel = <<>> THEN "toc"
    ELSE "expand"

\* A plausible slip: an empty Page Selector result is not checked.
AfterPagesUnchecked(ps) == "extract"

\* A plausible slip: an empty Page Selector result restarts the reasoning.
AfterPagesRetry(ps) ==
    IF ps = <<>> THEN "nodes" ELSE "extract"

\* lines 423 and 445: where main() goes after the Page Selector
AfterPages(ps) ==
    IF ps = <<>> THEN "log_no_pages" ELSE "extract"

(***************************************************************************)
(* main(): session start and the interactive loop.                         *)
(***************************************************************************)
S0000 == <<"0", "0", "0", "0">>
S0001 == <<"0", "0", "0", "1">>
S0002 == <<"0", "0", "0", "2">>
S1    == <<"1">>
S9999 == <<"9", "9", "9", "9">>
S0003 == <<"0", "0", "0", "3">>
S3    == <<"3">>

\* the locals of main() before the first turn; the service is free in its replies
LoopIdle ==
    /\ question = <<>>
    /\ mode = "tree"
    /\ node_ids = <<>>
    /\ selected_nodes = <<>>
    /\ pages = <<>>
    /\ context = Unbound
    /\ answer = Unbound
    /\ calls = <<>>
    /\ service = <<>>
    /\ log = <<>>
    /\ turns = 0
    /\ tree_for_reasoning = Unbound
    /\ node_resp = Unbound
    /\ page_resp = Unbound

LoopUnchanged ==
    UNCHANGED <<question, mode, node_ids, selected_nodes, pages, context, answer,
                calls, service, log, turns>>

\* The structure file of the session: a section with one subsection and two
\* more top-level sections, one without start_index and one whose start_index
\* is a string. The file carries the ids 0000..0003 or no id at all.
DocIds == <<S0000, S0001, S0002, S0003>>

DocHeap(tagged) ==
    LET id(k) == IF tagged THEN JStr(DocIds[k]) ELSE None
    IN  <<Titled(Node(id(1), JInt(3), JInt(4), <<2>>), Text("Methods"), Text("how")),
          Titled(Node(id(2), JInt(1), JInt(3), <<>>), Text("Data"), None),
          Node(id(3), None, JInt(4), <<>>),
          Titled(Node(id(4), JStr(S3), JInt(4), <<>>), Text("Results"), None)>>

DocStructure == <<1, 3, 4>>

\* what input() gives after strip(): end of input, a quit word in lower or
\* mixed case, an empty line, a question
Eof       == <<"EOFError">>
QuitWords == {<<"q">>, <<"q", "u", "i", "t">>, <<"e", "x", "i", "t">>}
What      == <<"w", "h", "a", "t">>
Questions == {What}
Inputs    ==
    {Eof} \cup {<<"line", w>> :
                  w \in QuitWords \cup {<<"Q">>, <<"E", "x", "I", "T">>, <<>>} \cup Questions}

UpperCase == <<"A", "B", "C", "D", "E", "F", "G", "H", "I", "J", "K", "L", "M",
               "N", "O", "P", "Q", "R", "S", "T", "U", "V", "W", "X", "Y", "Z">>
LowerCase == <<"a", "b", "c", "d", "e", "f", "g", "h", "i", "j", "k", "l", "m",
               "n", "o", "p", "q", "r", "s", "t", "u", "v", "w", "x", "y", "z">>

\* c.lower() of an ASCII character
AsciiLower(c) ==
    IF \E k \in 1..26 : UpperCase[k] = c
    THEN LowerCase[CHOOSE k \in 1..26 : UpperCase[k] = c]
    ELSE c

\* line 407: question.lower() in ('q', 'quit', 'exit'). The lower-case form
\* of a line is one of these words exactly when the line is the word in some
\* mix of ASCII cases: no character outside ASCII has a lower-case form that
\* is a letter of a quit word (U+0130 gives "i" followed by U+0307).
IsQuitLine(w) == [i \in 1..Len(w) |-> AsciiLower(w[i])] \in QuitWords

NodeLists ==
    { <<>>,
      <<JInt(9999), None>>,
      <<JStr(S0000), JStr(S9999), JStr(S0001)>>,
      <<JStr(S0002)>>,
      <<JStr(S0003)>> }

NodeResponses ==
    { <<"error">>, <<"empty">>, <<"other">>, <<"dict", <<"nolist">>>> }
        \cup { <<"dict", <<"list", l>>>> : l \in NodeLists }

PageLists ==
    { <<>>,
      <<JStr(<<"x">>), JInt(-1), JOther, None, JBool(TRUE)>>,
      <<JInt(2), JStr(<<"U+00B2">>)>>,
      <<JInt(2), JStr(<<"0", "3">>), JInt(2), JInt(0)>> }

PageResponses ==
    { <<"error">>, <<"empty">>, <<"other">> } \cup { <<"list", l>> : l \in PageLists }

AnswerResponses == {"error", "content"}

\* what the service may give the selectors in this turn
NodeReplies == IF node_resp = Unbound THEN NodeResponses ELSE {node_resp}
PageReplies == IF page_resp = Unbound THEN PageResponses ELSE {page_resp}

Init ==
    /\ client \in BOOLEAN
    /\ pi_utils \in BOOLEAN
    /\ \E tagged \in BOOLEAN : heap = DocHeap(tagged)
    /\ structure = DocStructure
    /\ node_map = EmptyMap
    /\ pc = "setup"
    /\ applied = 0
    /\ LoopIdle

\* lines 390-393: ensure_node_ids(structure); tree_for_reasoning =
\* simplify_tree(structure); node_map = build_node_index(structure)
Setup ==
    /\ pc = "setup"
    /\ heap' = ensure_node_ids(heap, structure, pi_utils)
    /\ tree_for_reasoning' = simplify_tree(heap', structure)
    /\ node_map' = build_node_index(heap', structure)
    /\ applied' = applied + 1
    /\ pc' = "ask"
    /\ UNCHANGED <<client, pi_utils, node_resp, page_resp, structure>>
    /\ LoopUnchanged

\* lines 402-417: read a line into `question` (input() raising EOFError
\* assigns nothing); leave the loop, skip an empty line, or start a turn
ReadInput ==
    /\ pc = "ask"
    /\ \E in \in Inputs :
         IF in = Eof
         THEN /\ pc' = "done"
              /\ UNCHANGED <<question, mode, node_ids, selected_nodes, pages,
                             calls, service, turns>>
         ELSE IF IsQuitLine(in[2])
         THEN /\ question' = in[2]
              /\ pc' = "done"
              /\ UNCHANGED <<mode, node_ids, selected_nodes, pages, calls, service, turns>>
         ELSE IF in[2] = <<>>
         THEN /\ question' = in[2]
              /\ pc' = "ask"
              /\ UNCHANGED <<mode, node_ids, selected_nodes, pages, calls, service, turns>>
         ELSE /\ turns < MaxTurns
              /\ question' = in[2]
              /\ mode' = "tree"
              /\ node_ids' = <<>>
              /\ pages' = <<>>
              /\ selected_nodes' = <<>>
              /\ calls' = <<>>
              /\ service' = <<>>
              /\ turns' = turns + 1
              /\ pc' = "nodes"
    /\ UNCHANGED <<client, pi_utils, node_resp, page_resp, structure, heap, node_map,
                   tree_for_reasoning, applied,
                   context, answer, log>>

\* lines 418-421 and 440-443: the Node Selector, and the resolution of its ids
NodeReasoning ==
    /\ pc = "nodes"
    /\ \E resp \in NodeReplies :
         LET ids == get_relevant_nodes(client, resp)
             sel == Resolve(node_map, ids)
             to  == AfterNodes(ids, sel)
         IN  /\ node_ids' = ids
             /\ selected_nodes' = (IF ids = <<>> THEN <<>> ELSE sel)
             /\ mode' = (IF to = "expand" THEN mode ELSE "toc_fallback")
             /\ pc' = to
    /\ calls' = Append(calls, "get_relevant_nodes")
    /\ service' = (IF client THEN Append(service, "get_relevant_nodes") ELSE service)
    /\ UNCHANGED <<client, pi_utils, node_resp, page_resp, structure, heap, node_map,
                   tree_for_reasoning, applied, question,
                   pages, context, answer, log, turns>>

\* lines 422-423 and 444-445: the Page Selector
PageReasoning ==
    /\ pc = "toc"
    /\ \E resp \in PageReplies :
         LET ps == get_relevant_pages(client, resp)
         IN  /\ pages' = FallbackPages(ps)
             /\ pc' = AfterPages(ps)
    /\ calls' = Append(calls, "get_relevant_pages")
    /\ service' = (IF client THEN Append(service, "get_relevant_pages") ELSE service)
    /\ UNCHANGED <<client, pi_utils, node_resp, page_resp, structure, heap, node_map,
                   tree_for_reasoning, applied, question,
                   mode, node_ids, selected_nodes, context, answer, log, turns>>

\* lines 465-475: the page list of the selected nodes; a TypeError raised by
\* range() is caught nowhere and ends main()
ExpandPages ==
    /\ pc = "expand"
    /\ LET r == TreePages(heap, selected_nodes)
       IN  /\ pages' = r.pages
           /\ pc' = (IF r.raised THEN "crashed" ELSE "extract")
    /\ heap' = NodesRead(heap, selected_nodes)
    /\ UNCHANGED <<client, pi_utils, node_resp, page_resp, structure, node_map,
                   tree_for_reasoning, applied, question,
                   mode, node_ids, selected_nodes, context, answer, calls, service,
                   log, turns>>

\* lines 438, 460 and 477: context = extract_text_from_pdf(pdf_path, pages)
ExtractText ==
    /\ pc = "extract"
    /\ \E opened \in BOOLEAN : context' = extract_text_from_pdf(pages, opened)
    /\ calls' = Append(calls, "extract_text_from_pdf")
    /\ pc' = "answer"
    /\ UNCHANGED <<client, pi_utils, node_resp, page_resp, structure, heap, node_map,
                   tree_for_reasoning, applied, question,
                   mode, node_ids, selected_nodes, pages, answer, service, log, turns>>

\* line 480: answer = generate_answer(question, context)
GenerateAnswer ==
    /\ pc = "answer"
    /\ \E resp \in AnswerResponses : answer' = generate_answer(client, resp)
    /\ calls' = Append(calls, "generate_answer")
    /\ service' = (IF client THEN Append(service, "generate_answer") ELSE service)
    /\ pc' = "log_ok"
    /\ UNCHANGED <<client, pi_utils, node_resp, page_resp, structure, heap, node_map,
                   tree_for_reasoning, applied, question,
                   mode, node_ids, selected_nodes, pages, context, log, turns>>

\* lines 425-435 and 447-457: the no_pages record, then `continue`
LogNoPages ==
    /\ pc = "log_no_pages"
    /\ \E written \in BOOLEAN :
         log' = write_qa_log(log, NoPagesRecord(question, mode, node_ids), written)
    /\ calls' = Append(calls, "write_qa_log")
    /\ pc' = "ask"
    /\ UNCHANGED <<client, pi_utils, node_resp, page_resp, structure, heap, node_map,
                   tree_for_reasoning, applied, question,
                   mode, node_ids, selected_nodes, pages, context, answer, service,
                   turns>>

\* lines 481-499: the ok record
LogOk ==
    /\ pc = "log_ok"
    /\ \E written \in BOOLEAN :
         log' = write_qa_log(log,
                    OkRecord(question, mode, node_ids, heap, selected_nodes, pages,
                             context, answer),
                    written)
    /\ calls' = Append(calls, "write_qa_log")
    /\ pc' = "ask"
    /\ UNCHANGED <<client, pi_utils, node_resp, page_resp, structure, heap, node_map,
                   tree_for_reasoning, applied, question,
                   mode, node_ids, selected_nodes, pages, context, answer, service,
                   turns>>

Next ==
    \/ Setup
    \/ ReadInput
    \/ NodeReasoning
    \/ PageReasoning
    \/ ExpandPages
    \/ ExtractText
    \/ GenerateAnswer
    \/ LogNoPages
    \/ LogOk

Spec == Init /\ [][Next]_vars

(***************************************************************************)
(* Specification of the page union: lines 465-475 applied to every pair of *)
(* nodes with indices up to MaxPage and every selection of at most MaxSel. *)
(***************************************************************************)
IndexValues == {None, JStr(S3), JBool(TRUE), JBool(FALSE)} \cup {JInt(n) : n \in 1..MaxPage}

Selections == UNION {[1..k -> {1, 2}] : k \in 1..MaxSel}

InitPages ==
    /\ client = TRUE
    /\ pi_utils = TRUE
    /\ \E s1 \in IndexValues, e1 \in IndexValues, s2 \in IndexValues, e2 \in IndexValues :
         heap = <<Node(JStr(S0000), s1, e1, <<>>), Node(JStr(S0001), s2, e2, <<>>)>>
    /\ structure = <<1, 2>>
    /\ node_map = build_node_index(heap, structure)
    /\ pc = "expand"
    /\ applied = 1
    /\ question = What
    /\ mode = "tree"
    /\ selected_nodes \in Selections
    /\ node_ids = [i \in 1..Len(selected_nodes) |-> DocIds[selected_nodes[i]]]
    /\ pages = <<>>
    /\ context = Unbound
    /\ answer = Unbound
    /\ calls = <<"get_relevant_nodes">>
    /\ service = <<"get_relevant_nodes">>
    /\ log = <<>>
    /\ turns = 1
    /\ tree_for_reasoning = simplify_tree(heap, structure)
    /\ node_resp = Unbound
    /\ page_resp = Unbound

NextPages == ExpandPages

SpecPages == InitPages /\ [][NextPages]_vars

(***************************************************************************)
(* Specification of the structure index: ensure_node_ids and               *)
(* build_node_index applied to every non-empty tree of at most MaxNodes    *)
(* nodes.                                                                  *)
(***************************************************************************)
\* node_id values of a loaded structure file: absent/null, strings, an integer
\* (str(1) collides with the string "1").
IdValues == {None, JStr(S0000), JStr(S1), JInt(1)}

\* children of p (0: the top-level list) under the parent function par
RECURSIVE ChildrenFrom(_, _, _, _)
ChildrenFrom(par, n, p, i) ==
    IF i > n THEN <<>>
    ELSE (IF par[i] = p THEN <<i>> ELSE <<>>) \o ChildrenFrom(par, n, p, i + 1)

Forests(n) == {par \in [1..n -> 0..n] : \A i \in 1..n : par[i] < i}

InitIndex ==
    /\ client \in BOOLEAN
    /\ pi_utils \in BOOLEAN
    /\ \E n \in 1..MaxNodes :     \* lines 387-389: main() returns on an empty structure
         \E par \in Forests(n) :
           \E ids \in [1..n -> IdValues] :
             /\ heap = [r \in 1..n |->
                           Node(ids[r], JInt(r), JInt(r), ChildrenFrom(par, n, r, 1))]
             /\ structure = ChildrenFrom(par, n, 0, 1)
    /\ node_map = EmptyMap
    /\ pc = "loaded"
    /\ applied = 0
    /\ LoopIdle

\* ensure_node_ids(structure), src/main.py line 390 (here: any number of times)
ApplyEnsureNodeIds ==
    /\ pc = "loaded"
    /\ applied < MaxApply
    /\ heap' = ensure_node_ids(heap, structure, pi_utils)
    /\ applied' = applied + 1
    /\ UNCHANGED <<client, pi_utils, node_resp, page_resp, structure, node_map, pc,
                   tree_for_reasoning>>
    /\ LoopUnchanged

\* tree_for_reasoning = simplify_tree(structure); node_map =
\* build_node_index(structure), src/main.py lines 392-393
ApplyBuildNodeIndex ==
    /\ pc = "loaded"
    /\ applied >= 1
    /\ tree_for_reasoning' = simplify_tree(heap, structure)
    /\ node_map' = build_node_index(heap, structure)
    /\ pc' = "indexed"
    /\ UNCHANGED <<client, pi_utils, node_resp, page_resp, structure, heap, applied>>
    /\ LoopUnchanged

NextIndex == ApplyEnsureNodeIds \/ ApplyBuildNodeIndex

SpecIndex == InitIndex /\ [][NextIndex]_vars

(***************************************************************************)
(* Specification of the projection: simplify_tree applied, up to MaxApply  *)
(* times, to every non-empty tree of at most MaxNodes nodes whose nodes    *)
(* have or lack                                                            *)
(* have or lack an id, a title and a summary.                              *)
(***************************************************************************)
InitSimplify ==
    /\ client \in BOOLEAN
    /\ pi_utils = TRUE
    /\ \E n \in 1..MaxNodes :     \* lines 387-389: main() returns on an empty structure
         \E par \in Forests(n) :
           \E ids \in [1..n -> {None, JStr(S0000)}],
              ts \in [1..n -> {None, Text("A")}],
              ss \in [1..n -> {None, Text("s")}] :
             /\ heap = [r \in 1..n |->
                           Titled(Node(ids[r], JInt(r), JInt(r + 1),
                                       ChildrenFrom(par, n, r, 1)),
                                  ts[r], ss[r])]
             /\ structure = ChildrenFrom(par, n, 0, 1)
    /\ node_map = EmptyMap
    /\ pc = "loaded"
    /\ applied = 0
    /\ LoopIdle

\* tree_for_reasoning = simplify_tree(structure), src/main.py line 392
ApplySimplifyTree ==
    /\ pc = "loaded"
    /\ applied < MaxApply
    /\ tree_for_reasoning' = simplify_tree(heap, structure)
    /\ applied' = applied + 1
    /\ UNCHANGED <<client, pi_utils, node_resp, page_resp, structure, heap, node_map, pc>>
    /\ LoopUnchanged

NextSimplify == ApplySimplifyTree

SpecSimplify == InitSimplify /\ [][NextSimplify]_vars

(***************************************************************************)
(* Specification of one turn: the session is set up on the tagged document,*)
(* a question has been read, and the service is bound to one reply for     *)
(* each selector, drawn from every JSON array of at most MaxList elements  *)
(* and from the failures.                                                  *)
(***************************************************************************)
Lists(E) == UNION {[1..k -> E] : k \in 0..MaxList}

TurnNodeResponses ==
    { <<"error">>, <<"empty">>, <<"other">>, <<"dict", <<"nolist">>>> }
        \cup { <<"dict", <<"list", l>>>> :
                 l \in Lists({None, JStr(S0000), JStr(S0001), JStr(S9999)}) }

TurnPageResponses ==
    { <<"error">>, <<"empty">>, <<"other">> }
        \cup { <<"list", l>> :
                 l \in Lists({JOther, JInt(-1), JInt(0), JInt(2), JStr(<<"0", "3">>),
                              JStr(<<"x">>), JStr(<<"U+0663">>), JStr(<<"U+00B2">>)}) }

InitTurn ==
    /\ client \in BOOLEAN
    /\ pi_utils = TRUE
    /\ heap = DocHeap(TRUE)
    /\ structure = DocStructure
    /\ node_map = build_node_index(heap, structure)
    /\ tree_for_reasoning = simplify_tree(heap, structure)
    /\ pc = "nodes"
    /\ applied = 1
    /\ question = What
    /\ mode = "tree"
    /\ node_ids = <<>>
    /\ selected_nodes = <<>>
    /\ pages = <<>>
    /\ context = Unbound
    /\ answer = Unbound
    /\ calls = <<>>
    /\ service = <<>>
    /\ log = <<>>
    /\ turns = 1
    /\ node_resp \in TurnNodeResponses
    /\ page_resp \in TurnPageResponses

NextTurn ==
    \/ NodeReasoning
    \/ PageReasoning
    \/ ExpandPages
    \/ ExtractText
    \/ GenerateAnswer
    \/ LogNoPages
    \/ LogOk

SpecTurn == InitTurn /\ [][NextTurn]_vars

TreeRefs == {PreOrder(heap, structure)[k] : k \in 1..Len(PreOrder(heap, structure))}
NoIds(h)  == \A r \in TreeRefs : h[r].node_id = None
AllIds(h) == \A r \in TreeRefs : h[r].node_id # None

\* the last node, in depth-first order, whose id has the same str() as r's
LastWithId(h, refs, r) ==
    LET po == PreOrder(h, refs)
        same == {k \in 1..Len(po) :
                    h[po[k]].node_id # None /\ Str(h[po[k]].node_id) = Str(h[r].node_id)}
    IN  po[CHOOSE k \in same : \A j \in same : j <= k]

\* C7: ensure_node_ids is idempotent: an application after the first leaves the
\* tree as it is, and once some node of the tree carries a non-null node_id no
\* application assigns or changes the node_id of any node.
C7_Idempotent ==
    [][ /\ (applied >= 1 => (heap' = heap /\ structure' = structure))
        /\ (~NoIds(heap) => \A r \in DOMAIN heap : heap'[r].node_id = heap[r].node_id)
      ]_vars

\* C7 witness: an untagged tree of three nodes was backfilled by the first
\* application and a second application has run.
C7_Witness ==
    /\ applied = 2
    /\ Len(structure) >= 1
    /\ \E r \in DOMAIN heap : heap[r].node_id = JStr(S0002)

\* C8 as claimed (in the sessions where pageindex.utils imports): after
\* ensure_node_ids has run, every node of the tree has a non-null node_id,
\* whatever the input tree was.
C8_AllTaggedAfterEnsure ==
    (applied >= 1 /\ pi_utils) => AllIds(heap)

\* C8 amended: when pageindex.utils imports, an application of ensure_node_ids
\* to a tree that is entirely untagged or fully tagged leaves every node with
\* a non-null node_id; a partially tagged tree is left as it is.
C8_TaggedUnlessPartial ==
    [][ (applied' = applied + 1 /\ pi_utils) =>
          /\ ((NoIds(heap) \/ AllIds(heap)) => AllIds(heap'))
          /\ ((~NoIds(heap) /\ ~AllIds(heap)) => heap' = heap)
      ]_vars

\* C8 witness: an untagged tree of at least two nodes has been backfilled.
C8_Witness ==
    /\ applied = 1
    /\ pi_utils
    /\ AllIds(heap)
    /\ \E r \in DOMAIN heap : heap[r].node_id = JStr(S0001)

\* C9 as claimed: after build_node_index, every node with a non-null node_id
\* is the node the map holds for its id.
C9_EveryIdMapsToItsNode ==
    pc = "indexed" =>
        \A r \in TreeRefs :
            heap[r].node_id # None =>
                /\ Str(heap[r].node_id) \in DOMAIN node_map
                /\ node_map[Str(heap[r].node_id)] = r

\* C9 amended: the map is keyed by str(node_id); every node with a non-null
\* node_id has its key in the map, the key maps to the last node in depth-first
\* order carrying that key, hence to the node itself when no other node has the
\* same str(node_id); and the map holds nothing else.
C9_IdMapsToLastNode ==
    pc = "indexed" =>
        /\ \A r \in TreeRefs :
              heap[r].node_id # None =>
                /\ Str(heap[r].node_id) \in DOMAIN node_map
                /\ node_map[Str(heap[r].node_id)] = LastWithId(heap, structure, r)
                /\ (\A o \in TreeRefs \ {r} :
                        heap[o].node_id # None => Str(heap[o].node_id) # Str(heap[r].node_id))
                    => node_map[Str(heap[r].node_id)] = r
        /\ \A k \in DOMAIN node_map :
              /\ node_map[k] \in TreeRefs
              /\ heap[node_map[k]].node_id # None
              /\ Str(heap[node_map[k]].node_id) = k

\* C9 witness: a backfilled tree of three nodes is indexed, each id mapping to
\* its own node, the child of the first root included.
C9_Witness ==
    /\ pc = "indexed"
    /\ Cardinality(DOMAIN node_map) = 3
    /\ \E r \in TreeRefs : heap[r].nodes # <<>> /\ node_map[S0001] = heap[r].nodes[1]

(***************************************************************************)
(* Claims about the retrieval loop.                                        *)
(***************************************************************************)
\* the pages start..end in ascending order (empty when end < start)
RangeSeq(a, b) == [i \in 1..(IF b >= a THEN b - a + 1 ELSE 0) |-> a + i - 1]

\* the ranges of the nodes ns that have both indices, one after the other
RECURSIVE ConcatRanges(_)
ConcatRanges(ns) ==
    IF ns = <<>> THEN <<>>
    ELSE (IF Skipped(Head(ns)) THEN <<>>
          ELSE RangeSeq(IndexInt(Head(ns).start_index), IndexInt(Head(ns).end_index)))
         \o ConcatRanges(Tail(ns))

FirstPos(s, x) == CHOOSE i \in 1..Len(s) : s[i] = x /\ \A j \in 1..(i - 1) : s[j] # x

NoDuplicates(s) == \A i, j \in 1..Len(s) : i # j => s[i] # s[j]

\* ps holds every page of `all` once, ordered by first occurrence in `all`
FirstSeenUnion(ps, all) ==
    /\ Range(ps) = Range(all)
    /\ NoDuplicates(ps)
    /\ \A i, j \in 1..Len(ps) : i < j => FirstPos(all, ps[i]) < FirstPos(all, ps[j])

Ascending(s) == \A i \in 1..(Len(s) - 1) : s[i] < s[i + 1]

SelectedRecords == [i \in 1..Len(selected_nodes) |-> heap[selected_nodes[i]]]

HasRange(n, a, b) == n.start_index = JInt(a) /\ n.end_index = JInt(b)

Rank(c) ==
    CASE c = "get_relevant_nodes"    -> 1
      [] c = "get_relevant_pages"    -> 2
      [] c = "extract_text_from_pdf" -> 3
      [] c = "generate_answer"       -> 4
      [] c = "write_qa_log"          -> 5

TurnOver == pc \in {"ask", "done", "crashed"} /\ turns >= 1

\* C1: in a turn where the Node Selector has returned an empty list, the Node
\* Selector has been called once, and the Page Selector is the next call: not
\* yet called while main() is about to call it, called exactly once from then on.
C1_FallbackOnce ==
    (node_ids = <<>> /\ Count(calls, "get_relevant_nodes") >= 1) =>
        /\ Count(calls, "get_relevant_nodes") = 1
        /\ pc = "toc" => Count(calls, "get_relevant_pages") = 0
        /\ pc # "toc" => Count(calls, "get_relevant_pages") = 1

\* C1 witness: a finished turn whose Node Selector returned [] and whose
\* fallback found pages.
C1_Witness ==
    /\ pc = "ask"
    /\ node_ids = <<>>
    /\ calls = <<"get_relevant_nodes", "get_relevant_pages", "extract_text_from_pdf",
                 "generate_answer", "write_qa_log">>

BothEmpty ==
    /\ Count(calls, "get_relevant_nodes") = 1
    /\ Count(calls, "get_relevant_pages") = 1
    /\ node_ids = <<>>
    /\ pages = <<>>

\* C2: in a turn where both selectors returned empty results, neither
\* extract_text_from_pdf nor generate_answer is called before the next
\* question is read, the only call left is write_qa_log, and the record it
\* writes has status no_pages, no pages, an empty answer and no context.
C2_NoPagesTurn ==
    /\ [](BothEmpty =>
            /\ pc \in {"log_no_pages", "ask", "done"}
            /\ Count(calls, "extract_text_from_pdf") = 0
            /\ Count(calls, "generate_answer") = 0
            /\ pc # "log_no_pages" =>
                  calls = <<"get_relevant_nodes", "get_relevant_pages", "write_qa_log">>)
    /\ [][(BothEmpty /\ pc = "log_no_pages") =>
            /\ pc' = "ask"
            /\ \/ log' = log
               \/ /\ Len(log') = Len(log) + 1
                  /\ SubSeq(log', 1, Len(log)) = log
                  /\ LET r == log'[Len(log')]
                     IN  /\ r.question = question
                         /\ r.status = "no_pages"
                         /\ r.mode = "toc_fallback"
                         /\ r.node_ids = <<>>
                         /\ r.pages = <<>>
                         /\ r.answer = Text("")
                         /\ "context" \notin DOMAIN r
          ]_vars

\* C2 witness: the second turn of a session found nothing and was logged,
\* after a first turn that had read pages.
C2_Witness ==
    /\ pc = "ask"
    /\ BothEmpty
    /\ Len(log) = 2
    /\ log[1].status = "ok"
    /\ log[2].status = "no_pages"

\* C3: on the tree path the page list holds every page of the ranges of the
\* selected nodes exactly once, in the order of first occurrence when the
\* ranges are read in selector order, each ascending; the ranges [3,5] then
\* [5,7] give [3,4,5,6,7].
C3_PageUnion ==
    (pc = "extract" /\ mode = "tree") =>
        /\ FirstSeenUnion(pages, ConcatRanges(SelectedRecords))
        /\ (/\ Len(selected_nodes) = 2
            /\ HasRange(SelectedRecords[1], 3, 5)
            /\ HasRange(SelectedRecords[2], 5, 7)) => pages = <<3, 4, 5, 6, 7>>

\* C3 witness: the ranges [5,7] then [3,5] give [5,6,7,3,4], which is not in
\* numerical order.
C3_Witness ==
    /\ pc = "extract"
    /\ mode = "tree"
    /\ Len(selected_nodes) = 2
    /\ HasRange(SelectedRecords[1], 5, 7)
    /\ HasRange(SelectedRecords[2], 3, 5)
    /\ pages = <<5, 6, 7, 3, 4>>
    /\ ~Ascending(pages)

SelectorCalls(s) == Count(s, "get_relevant_nodes") + Count(s, "get_relevant_pages")

\* C4: in a turn the Node Selector is called at most once and the Page
\* Selector at most once, so the selectors make at most two calls, of which
\* at most two reach the reasoning service.
C4_AtMostTwoReasoningCalls ==
    /\ Count(calls, "get_relevant_nodes") <= 1
    /\ Count(calls, "get_relevant_pages") <= 1
    /\ SelectorCalls(calls) <= 2
    /\ SelectorCalls(service) <= 2
    /\ \A i \in 1..Len(service) : Count(calls, service[i]) >= 1

\* C4 witness: the worst case, both selectors have reached the service.
C4_Witness ==
    /\ pc = "ask"
    /\ SelectorCalls(service) = 2

\* C5: the calls of a turn are made in the order Node Selector, Page
\* Selector, extraction, synthesis, log write, each at most once.
C5_CallOrder ==
    \A i, j \in 1..Len(calls) : i < j => Rank(calls[i]) < Rank(calls[j])

\* C5 witness: a turn that made all five calls.
C5_Witness ==
    /\ pc = "ask"
    /\ Len(calls) = 5

\* C6: the pages of every logged record are positive integers, none
\* of them twice.
C6_PagesUniquePositive ==
    \A k \in 1..Len(log) :
        /\ NoDuplicates(log[k].pages)
        /\ \A i \in 1..Len(log[k].pages) : log[k].pages[i] >= 1

\* C10 as claimed: every accepted question leads to exactly one write_qa_log
\* call, whatever path its turn takes.
C10_OneLogCallPerTurn ==
    TurnOver => Count(calls, "write_qa_log") = 1

(***************************************************************************)
(* Node resolution and the choice of the path.                             *)
(***************************************************************************)
Known(id) == id \in DOMAIN node_map

\* the ids of the turn that the index knows, in the selector's order
KnownIds == SelectSeq(node_ids, Known)

NodeSelectorDone == Count(calls, "get_relevant_nodes") = 1
PageSelectorCalls == Count(calls, "get_relevant_pages")

\* C11: when the Node Selector returned a non-empty id list, the selected
\* nodes are the index entries of the ids the index knows, in the selector's
\* order, the other ids being dropped; with at least one such node the turn is
\* on the tree path and the Page Selector is not called; with none the turn
\* is on the TOC fallback and the Page Selector is called.
C11_ResolveThenChoosePath ==
    (NodeSelectorDone /\ node_ids # <<>>) =>
        /\ selected_nodes = [i \in 1..Len(KnownIds) |-> node_map[KnownIds[i]]]
        /\ (selected_nodes # <<>> =>
                /\ mode = "tree"
                /\ PageSelectorCalls = 0
                /\ pc # "toc")
        /\ (selected_nodes = <<>> =>
                /\ mode = "toc_fallback"
                /\ (pc = "toc" \/ PageSelectorCalls = 1))

C11_Witness ==
    /\ node_ids = <<S9999, S0001>>
    /\ selected_nodes = <<2>>
    /\ mode = "tree"
    /\ PageSelectorCalls = 0
    /\ pc = "ask"
    /\ Len(log) = 1

(***************************************************************************)
(* A session without a client.                                             *)
(***************************************************************************)
NotInitialized == Text("Error: OpenAI client not initialized.")

\* C12: when the client is not initialized, get_relevant_nodes and
\* get_relevant_pages return [] and generate_answer returns the "not
\* initialized" error string whatever the service would have answered, the
\* service is never called and nothing is raised; so every turn of the
\* session goes Node Selector, Page Selector, no_pages record, and every
\* record of the log has status no_pages.
C12_NoClientNoPages ==
    ~client =>
        /\ \A r \in NodeResponses : get_relevant_nodes(client, r) = <<>>
        /\ \A r \in PageResponses : get_relevant_pages(client, r) = <<>>
        /\ \A r \in AnswerResponses : generate_answer(client, r) = NotInitialized
        /\ service = <<>>
        /\ pc \in {"setup", "ask", "nodes", "toc", "log_no_pages", "done"}
        /\ \A i \in 1..Len(log) : log[i].status = "no_pages"
        /\ (TurnOver =>
               calls = <<"get_relevant_nodes", "get_relevant_pages", "write_qa_log">>)

C12_Witness ==
    /\ ~client
    /\ turns = 2
    /\ pc = "ask"
    /\ service = <<>>
    /\ Len(log) = 2
    /\ log[2].status = "no_pages"

(***************************************************************************)
(* The end of the session.                                                 *)
(***************************************************************************)
\* C13: no outcome of a turn (selectors, node resolution, page-range
\* expansion, extraction, synthesis, logging) ends the loop: main() is never
\* left by an exception, the session ends on the end-of-input signal only.
C13_NoTurnEndsTheSession == pc # "crashed"

(***************************************************************************)
(* Failures of the Node Selector.                                          *)
(***************************************************************************)
\* the replies that are a failure: the call or the parse raises, the content
\* is empty, the parsed value is no dict, node_list is absent or no list
NodeFailures == { <<"error">>, <<"empty">>, <<"other">>, <<"dict", <<"nolist">>>> }

\* C14: whatever way the Node Selector fails, it returns the empty id
\* sequence and raises nothing, and the turn goes on to the TOC fallback:
\* the mode is toc_fallback and the Page Selector is the next call.
C14_NodeFailureFallsBack ==
    (NodeSelectorDone /\ node_resp \in NodeFailures) =>
        /\ node_ids = <<>>
        /\ selected_nodes = <<>>
        /\ mode = "toc_fallback"
        /\ pc \notin {"expand", "crashed"}
        /\ (pc = "toc" \/ PageSelectorCalls = 1)

C14_Witness ==
    /\ client
    /\ node_resp = <<"dict", <<"nolist">>>>
    /\ node_ids = <<>>
    /\ calls = <<"get_relevant_nodes", "get_relevant_pages">>
    /\ service = calls
    /\ mode = "toc_fallback"

(***************************************************************************)
(* The list of the Page Selector.                                          *)
(***************************************************************************)
PageSelectorParsedArray ==
    client /\ PageSelectorCalls = 1 /\ page_resp[1] = "list"

\* s is t without some of its elements, the others in their order
RECURSIVE IsSubseq(_, _)
IsSubseq(s, t) ==
    IF s = <<>> THEN TRUE
    ELSE IF t = <<>> THEN FALSE
    ELSE (Head(s) = Head(t) /\ IsSubseq(Tail(s), Tail(t))) \/ IsSubseq(s, Tail(t))

\* the numbers of the elements of the array that int() reads, in array order
NumericValues(arr) ==
    LET num == SelectSeq(arr, LAMBDA p : KeptPage(p) /\ ~IntRaises(Str(p)))
    IN  [i \in 1..Len(num) |-> ParseInt(Str(num[i]))]

\* C15: for every parsed array, get_relevant_pages returns the page numbers
\* of its numeric elements in array order, the other elements discarded, and
\* every number it returns is an integer >= 1.
C15_PagesPositiveInOrder ==
    PageSelectorParsedArray =>
        /\ IsSubseq(pages, NumericValues(page_resp[2]))
        /\ \A i \in 1..Len(pages) : pages[i] >= 1

(***************************************************************************)
(* The tree and the index during the turns.                                *)
(***************************************************************************)
\* C16: once the session is set up, no step of any turn changes the
\* structure tree or the node index, so an id resolves to the same node in
\* every turn.
C16_TreeAndIndexFrozen ==
    [][pc # "setup" =>
          /\ structure' = structure
          /\ heap' = heap
          /\ node_map' = node_map]_vars

C16_Witness ==
    /\ turns = 2
    /\ pc = "ask"
    /\ Len(log) = 2
    /\ log[1].mode = "tree"
    /\ log[2].node_ids = <<S0002>>
    /\ node_map = build_node_index(heap, structure)
    /\ node_map[S0002] = 3

(***************************************************************************)
(* The projection of simplify_tree.                                        *)
(***************************************************************************)
Has(d, k) == k \in DOMAIN d

\* `out` is the projection of the nodes `refs`: one dict per node in the same
\* order, with the node's title, node_id and summary when the node has them,
\* with the projection of its children when it has some, and no other key
RECURSIVE Projects(_, _, _)
Projects(out, h, refs) ==
    /\ Len(out) = Len(refs)
    /\ \A i \in 1..Len(refs) :
         LET n == h[refs[i]]
             d == out[i]
         IN  /\ DOMAIN d \subseteq {"title", "node_id", "summary", "nodes"}
             /\ \A k \in {"title", "node_id", "summary"} :
                  IF n[k] = None THEN ~Has(d, k) ELSE Has(d, k) /\ d[k] = n[k]
             /\ Has(d, "nodes") <=> n.nodes # <<>>
             /\ Has(d, "nodes") => Projects(d["nodes"], h, n.nodes)

\* C17: simplify_tree is a pure projection: its result has the shape and the
\* child order of its input and every node of it carries the title, node_id
\* and summary of the source node and, when non-empty, its children, and
\* nothing else (no page range); a call leaves the input tree unchanged and
\* a second call on the same tree returns the same result.
C17_SimplifyIsProjection ==
    /\ [](applied >= 1 => Projects(tree_for_reasoning, heap, structure))
    /\ [][/\ heap' = heap
          /\ structure' = structure
          /\ (applied >= 1 => tree_for_reasoning' = tree_for_reasoning)]_vars

C17_Witness ==
    /\ applied = 2
    /\ Len(tree_for_reasoning) = 2
    /\ DOMAIN tree_for_reasoning[1] = {"title", "nodes"}
    /\ DOMAIN tree_for_reasoning[1]["nodes"][1] = {"node_id", "summary"}
    /\ DOMAIN tree_for_reasoning[2] = {}
    /\ heap[structure[1]].start_index # None

(***************************************************************************)
(* The page list of the TOC fallback.                                      *)
(***************************************************************************)
\* what the Page Selector returns in this turn
PagesReturned == get_relevant_pages(client, page_resp)

ExtractionDone == Count(calls, "extract_text_from_pdf") = 1

\* C18: on the TOC fallback, when the Page Selector returned a non-empty
\* list, the turn's page list is that list as returned (same elements, same
\* order, duplicates kept): extraction reads exactly these pages and the
\* record of the turn carries exactly this list.
C18_FallbackPagesVerbatim ==
    (mode = "toc_fallback" /\ PageSelectorCalls = 1 /\ PagesReturned # <<>>) =>
        /\ pages = PagesReturned
        /\ pc # "log_no_pages"
        /\ (ExtractionDone =>
               context \in {extract_text_from_pdf(PagesReturned, o) : o \in BOOLEAN})
        /\ \A i \in 1..Len(log) :
               log[i].status = "ok" /\ log[i].pages = PagesReturned

C18_Witness ==
    /\ page_resp = <<"list", <<JStr(<<"0", "3">>), JStr(<<"0", "3">>)>>>>
    /\ node_ids = <<S9999>>
    /\ mode = "toc_fallback"
    /\ context = PageText(<<3, 3>>)
    /\ Len(log) = 1
    /\ log[1].pages = <<3, 3>>
    /\ log[1].mode = "toc_fallback"

(***************************************************************************)
(* Synthesis and the page list.                                            *)
(***************************************************************************)
\* C19: generate_answer is called, and a record with status ok is written,
\* only in a turn whose final page list is non-empty; a tree-path turn whose
\* resolved nodes give no page does not reach synthesis.
C19_SynthesisOnlyWithPages ==
    /\ (pc = "answer" \/ Count(calls, "generate_answer") >= 1) => pages # <<>>
    /\ \A i \in 1..Len(log) : log[i].status = "ok" => log[i].pages # <<>>

(***************************************************************************)
(* Mode and status of the records.                                         *)
(***************************************************************************)
\* the record `r` agrees with the path of the turn that writes it
AgreesWithPath(r) ==
    /\ r.mode \in {"tree", "toc_fallback"}
    /\ r.mode = "tree" <=> (PageSelectorCalls = 0 /\ selected_nodes # <<>>)
    /\ r.mode = "toc_fallback" <=> (PageSelectorCalls = 1 /\ selected_nodes = <<>>)
    /\ r.mode = mode
    /\ r.status = "no_pages" <=> pages = <<>> /\ r.mode = "toc_fallback"

\* C20: every record has mode tree exactly when the Page Selector was not
\* called in its turn (some id resolved) and mode toc_fallback exactly when
\* it was called; every no_pages record has mode toc_fallback and every
\* record of mode tree has status ok.
C20_ModeAndStatusAgree ==
    /\ [](\A i \in 1..Len(log) :
            /\ log[i].status \in {"ok", "no_pages"}
            /\ log[i].status = "no_pages" => log[i].mode = "toc_fallback"
            /\ log[i].mode = "tree" => log[i].status = "ok")
    /\ [][Len(log') > Len(log) => AgreesWithPath(log'[Len(log')])]_vars

C20_Witness ==
    /\ Len(log) = 2
    /\ log[1].mode = "tree"
    /\ log[1].status = "ok"
    /\ log[2].mode = "toc_fallback"
    /\ log[2].status = "no_pages"
    /\ log[2].node_ids = <<S9999>>
    /\ calls = <<"get_relevant_nodes", "get_relevant_pages", "write_qa_log">>

====
